---- MODULE Spec2Model ----
(***************************************************************************)
(* Model of dryfreight's rate pipeline (src/api/rates.js): the bulletin    *)
(* line parser and vocabulary resolver, the page extractor and scrape run, *)
(* and the read handler with its freshness aggregation.                    *)
(*                                                                         *)
(* Text is modelled as TLA+ strings, indexed from 0 as in JavaScript.      *)
(* Two characters of the source are outside the character set of TLA+      *)
(* string literals and are written with stand-ins throughout:              *)
(*     "@"  is U+2022 (the bullet),   "#"  is U+00B7 (the middle dot).     *)
(***************************************************************************)
EXTENDS Integers, Sequences, FiniteSets, TLC

(***************************************************************************)
(* JavaScript string primitives used by the source.                        *)
(***************************************************************************)
\* Op applied to the value of v. TLC evaluates v once here, where it may
\* evaluate the definition of a LET at each of its uses.
WithValue(v, Op(_)) == CHOOSE r \in {Op(x) : x \in {v}} : TRUE

SetMin(S) == CHOOSE x \in S : \A y \in S : x <= y

SetMax(S) == CHOOSE x \in S : \A y \in S : x >= y

\* s.charAt(i)
charAt(s, i) == SubSeq(s, i + 1, i + 1)

\* The characters the model's inputs use that \s matches.
Whitespace == {" ", "\t"}

UpperLetters == <<"A", "B", "C", "D", "E", "F", "G", "H", "I", "J", "K", "L", "M",
                  "N", "O", "P", "Q", "R", "S", "T", "U", "V", "W", "X", "Y", "Z">>

LowerLetters == <<"a", "b", "c", "d", "e", "f", "g", "h", "i", "j", "k", "l", "m",
                  "n", "o", "p", "q", "r", "s", "t", "u", "v", "w", "x", "y", "z">>

lowerChar(c) ==
    IF \E k \in 1..26 : UpperLetters[k] = c
    THEN LowerLetters[CHOOSE k \in 1..26 : UpperLetters[k] = c]
    ELSE c

RECURSIVE toLowerCase(_)
\* s.toLowerCase()
toLowerCase(s) ==
    IF s = "" THEN "" ELSE lowerChar(SubSeq(s, 1, 1)) \o toLowerCase(Tail(s))

\* s.substring(a, b): arguments clamped to 0..length, swapped when a > b.
substring(s, a, b) ==
    LET clamp(n) == IF n < 0 THEN 0 ELSE IF n > Len(s) THEN Len(s) ELSE n
        lo == IF clamp(a) <= clamp(b) THEN clamp(a) ELSE clamp(b)
        hi == IF clamp(a) <= clamp(b) THEN clamp(b) ELSE clamp(a)
    IN  SubSeq(s, lo + 1, hi)

\* s.substring(a)
substringFrom(s, a) == substring(s, a, Len(s))

\* s.startsWith(pat, i)
startsWithAt(s, pat, i) ==
    /\ i >= 0
    /\ i + Len(pat) <= Len(s)
    /\ SubSeq(s, i + 1, i + Len(pat)) = pat

\* s.indexOf(pat): the first index of pat in s, -1 when absent.
indexOf(s, pat) ==
    LET hits == {i \in 0..(Len(s) - Len(pat)) : startsWithAt(s, pat, i)}
    IN  IF hits = {} THEN -1 ELSE SetMin(hits)

\* s.lastIndexOf(pat): the last index of pat in s, -1 when absent.
lastIndexOf(s, pat) ==
    LET hits == {i \in 0..(Len(s) - Len(pat)) : startsWithAt(s, pat, i)}
    IN  IF hits = {} THEN -1 ELSE SetMax(hits)

\* s.includes(pat)
includes(s, pat) == \E i \in 0..(Len(s) - Len(pat)) : startsWithAt(s, pat, i)

\* s.trim()
trim(s) ==
    LET solid == {i \in 0..(Len(s) - 1) : charAt(s, i) \notin Whitespace}
    IN  IF solid = {} THEN "" ELSE substring(s, SetMin(solid), SetMax(solid) + 1)

RECURSIVE runLength(_, _, _)
\* Length of the longest run of characters of `chars` in s starting at index i
\* (a greedy X* of a regular expression).
runLength(s, i, chars) ==
    IF i < Len(s) /\ charAt(s, i) \in chars
    THEN 1 + runLength(s, i + 1, chars)
    ELSE 0

\* s.split(/\s+/)[0]: the text before the first whitespace run.
firstToken(s) ==
    LET gaps == {i \in 0..(Len(s) - 1) : charAt(s, i) \in Whitespace}
    IN  IF gaps = {} THEN s ELSE substring(s, 0, SetMin(gaps))

RECURSIVE removeCommas(_)
\* s.replace(/,/g, '')
removeCommas(s) ==
    IF s = "" THEN ""
    ELSE (IF SubSeq(s, 1, 1) = "," THEN "" ELSE SubSeq(s, 1, 1)) \o removeCommas(Tail(s))

Digits == <<"0", "1", "2", "3", "4", "5", "6", "7", "8", "9">>

DigitChars == {Digits[k] : k \in 1..10}

\* The value parseInt gives for text that does not start with a digit.
NaN == -1

RECURSIVE parseInt(_)
\* parseInt(s, 10) on a string of decimal digits.
parseInt(s) ==
    IF s = "" THEN NaN
    ELSE LET last == SubSeq(s, Len(s), Len(s))
             d    == (CHOOSE k \in 1..10 : Digits[k] = last) - 1
             init == SubSeq(s, 1, Len(s) - 1)
         IN  IF init = "" THEN d ELSE 10 * parseInt(init) + d

(***************************************************************************)
(* Bounds and inputs of the model.                                         *)
(***************************************************************************)
\* A scrape run starts only while the table holds fewer rows than this.
MaxStoreRows == 2

\* Most lines a bulletin page holds.
MaxPageLines == 2

\* The tier boundaries of the freshness framework, in days.
TIER1_DAYS == 3

TIER2_DAYS == 14

TIER3_DAYS == 45

\* The days on which the model lets something happen: day 0, and the day
\* after it and after each tier boundary, with the day that follows the last.
Days == {0, 1, TIER1_DAYS + 1, TIER2_DAYS + 1, TIER3_DAYS + 1, TIER3_DAYS + 2}

\* Lines a bulletin page is made of.
PageLines ==
    {"@ Ultramax open Continent to China fixed around $1,000",
     "  # Ultramax open Germany to Hong Kong fixed around $200,000",
     "@ Supramax open West Africa (WAFR) via ECSA to China fixed around $20,500",
     "@ Handy open US Gulf to China fixed around $500",
     "@ Panamax open US Gulf to Japan fixed around $250,000"}

RECURSIVE pagesOf(_)
\* The page bodies of exactly n lines.
pagesOf(n) ==
    IF n = 1 THEN PageLines
    ELSE {body \o "\n" \o line : body \in pagesOf(n - 1), line \in PageLines}

\* The page bodies the bulletin site serves: empty, or up to MaxPageLines lines.
Pages == {""} \cup UNION {pagesOf(n) : n \in 1..MaxPageLines}

\* The page bodies of the model of the whole system.
SamplePages ==
    {"@ Ultramax open Continent to China fixed around $17,500\n"
        \o "@ Supramax open West Africa (WAFR) via ECSA to China fixed around $20,500",
     "<ul>\n@ Ultramax open Germany to Hong Kong fixed around $18,250\n</ul>"}

\* The bodies the bunker query answers with.
BunkerBodies ==
    {<<[hub |-> "Singapore", vlsfo |-> 610, mgo |-> 790, scraped_date |-> 1],
       [hub |-> "Rotterdam", vlsfo |-> 560, mgo |-> 720, scraped_date |-> 1],
       [hub |-> "Singapore", vlsfo |-> 600, mgo |-> 780, scraped_date |-> 0]>>}

\* Bulletin lines for parseLine, put together from their parts.
LineBullets == {"", "@ ", "@@", "- "}

LineVessels == {"Supramax", "Tanker"}

LineOrigins ==
    {"Continent", "West Africa (WAFR) via ECSA", "Japan-Korea", "constructor", "Atlantis"}

LineSeparators == {" to ", " for "}

LineDestinations == {"China", "East Coast India port", "Toledo to US Gulf (USG)"}

LinePhrases == {"fixed around", "Fixed Around", "fixed  around"}

LineNumbers == {"17,500", "500", "200,000"}

LineTails == {"", "  "}

BulletinLines ==
    {b \o v \o " open " \o o \o s \o d \o " " \o p \o " $" \o n \o t :
        b \in LineBullets, v \in LineVessels, o \in LineOrigins, s \in LineSeparators,
        d \in LineDestinations, p \in LinePhrases, n \in LineNumbers, t \in LineTails}

\* Location texts for mapRegion, put together from their parts.
RegionPrefixes == {"", "  ", "Port of "}

RegionNames ==
    {"USG", "US Gulf", "us gulf", "East Coast India", "India", "South India", "Ukraine",
     "Romania", "Black Sea", "Japan-Korea", "UK", "Atlantis", "constructor", "__proto__",
     "toString", ""}

RegionSuffixes == {"", " (USG)", " ports", " (x) area (y)"}

RegionTexts == {p \o n \o s : p \in RegionPrefixes, n \in RegionNames, s \in RegionSuffixes}

(***************************************************************************)
(* Vocabulary: region aliases and vessel classes.                          *)
(***************************************************************************)
\* The alias table, in the order Object.entries enumerates it (insertion
\* order: no key is an array index).
REGION_MAP == <<
    <<"continent", "N.EUROPE">>,
    <<"n.europe", "N.EUROPE">>,
    <<"north europe", "N.EUROPE">>,
    <<"northern europe", "N.EUROPE">>,
    <<"arag", "N.EUROPE">>,
    <<"uk continent", "N.EUROPE">>,
    <<"germany", "N.EUROPE">>,
    <<"uk", "N.EUROPE">>,
    <<"netherlands", "N.EUROPE">>,
    <<"belgium", "N.EUROPE">>,
    <<"france", "N.EUROPE">>,
    <<"spain", "W.MED">>,
    <<"portugal", "W.MED">>,
    <<"morocco", "W.MED">>,
    <<"algeria", "W.MED">>,
    <<"w.med", "W.MED">>,
    <<"west med", "W.MED">>,
    <<"west mediterranean", "W.MED">>,
    <<"east mediterranean", "E.MED">>,
    <<"e.med", "E.MED">>,
    <<"emed", "E.MED">>,
    <<"east med", "E.MED">>,
    <<"egypt med", "E.MED">>,
    <<"egypt", "E.MED">>,
    <<"turkey", "E.MED">>,
    <<"turkiye", "E.MED">>,
    <<"turkiye med", "E.MED">>,
    <<"greece", "E.MED">>,
    <<"italy", "W.MED">>,
    <<"black sea", "BLACK SEA">>,
    <<"ukraine", "BLACK SEA">>,
    <<"romania", "BLACK SEA">>,
    <<"us gulf", "US GULF">>,
    <<"usg", "US GULF">>,
    <<"us east coast", "US EAST COAST">>,
    <<"usec", "US EAST COAST">>,
    <<"east coast south america", "E.S.AMERICA">>,
    <<"ecsa", "E.S.AMERICA">>,
    <<"brazil", "E.S.AMERICA">>,
    <<"argentina", "E.S.AMERICA">>,
    <<"uruguay", "E.S.AMERICA">>,
    <<"sw passage", "E.S.AMERICA">>,
    <<"north coast south america", "N.S.AMERICA">>,
    <<"ncsa", "N.S.AMERICA">>,
    <<"colombia", "N.S.AMERICA">>,
    <<"venezuela", "N.S.AMERICA">>,
    <<"dominican republic", "CARIBBEAN">>,
    <<"caribbean", "CARIBBEAN">>,
    <<"mexico east coast", "MEXICO">>,
    <<"mexico", "MEXICO">>,
    <<"peru", "W.S.AMERICA">>,
    <<"ecuador", "W.S.AMERICA">>,
    <<"west coast south america", "W.S.AMERICA">>,
    <<"wcsa", "W.S.AMERICA">>,
    <<"west africa", "W.AFRICA">>,
    <<"wafr", "W.AFRICA">>,
    <<"waf", "W.AFRICA">>,
    <<"w.africa", "W.AFRICA">>,
    <<"nigeria", "W.AFRICA">>,
    <<"gabon", "W.AFRICA">>,
    <<"ghana", "W.AFRICA">>,
    <<"south africa", "S.AFRICA">>,
    <<"saf", "S.AFRICA">>,
    <<"s.africa", "S.AFRICA">>,
    <<"east africa", "E.AFRICA">>,
    <<"kenya", "E.AFRICA">>,
    <<"mozambique", "E.AFRICA">>,
    <<"middle east", "MIDDLE EAST">>,
    <<"uae", "MIDDLE EAST">>,
    <<"qatar", "MIDDLE EAST">>,
    <<"oman", "MIDDLE EAST">>,
    <<"saudi arabia", "MIDDLE EAST">>,
    <<"iraq", "MIDDLE EAST">>,
    <<"iran", "MIDDLE EAST">>,
    <<"red sea", "RED SEA">>,
    <<"west coast india", "W.INDIA">>,
    <<"wci", "W.INDIA">>,
    <<"w.india", "W.INDIA">>,
    <<"india", "W.INDIA">>,
    <<"pakistan", "W.INDIA">>,
    <<"east coast india", "E.INDIA">>,
    <<"eci", "E.INDIA">>,
    <<"e.india", "E.INDIA">>,
    <<"bangladesh", "E.INDIA">>,
    <<"south india", "S.INDIA">>,
    <<"s.india", "S.INDIA">>,
    <<"sri lanka", "S.INDIA">>,
    <<"china", "CHINA">>,
    <<"south china", "CHINA">>,
    <<"north china", "CHINA">>,
    <<"hong kong", "CHINA">>,
    <<"taiwan", "N.ASIA">>,
    <<"japan", "N.ASIA">>,
    <<"japan-korea", "N.ASIA">>,
    <<"south korea", "N.ASIA">>,
    <<"korea", "N.ASIA">>,
    <<"north pacific", "N.ASIA">>,
    <<"nopac", "N.ASIA">>,
    <<"n.asia", "N.ASIA">>,
    <<"far east", "CHINA">>,
    <<"indonesia", "SE.ASIA">>,
    <<"malaysia", "SE.ASIA">>,
    <<"thailand", "SE.ASIA">>,
    <<"vietnam", "SE.ASIA">>,
    <<"cambodia", "SE.ASIA">>,
    <<"philippines", "SE.ASIA">>,
    <<"south east asia", "SE.ASIA">>,
    <<"southeast asia", "SE.ASIA">>,
    <<"se asia", "SE.ASIA">>,
    <<"sea", "SE.ASIA">>,
    <<"australia", "AUSTRALIA">>
>>

\* REGION_MAP is an object literal, so a property read also finds what it
\* inherits from Object.prototype.
ObjectPrototypeProps ==
    {"constructor", "__proto__", "hasOwnProperty", "isPrototypeOf",
     "propertyIsEnumerable", "toLocaleString", "toString", "valueOf",
     "__defineGetter__", "__defineSetter__", "__lookupGetter__", "__lookupSetter__"}

\* The value of a missing property.
undefined == "undefined"

null == "null"

\* The result of parseLine when it rejects a line.
nullRecord == [null |-> TRUE]

\* REGION_MAP[t]: the own property, else the inherited one, else undefined.
\* An inherited value (a function, or the prototype object) is written
\* "Object.prototype.<name>".
regionLookup(t) ==
    IF \E k \in 1..Len(REGION_MAP) : REGION_MAP[k][1] = t
    THEN REGION_MAP[CHOOSE k \in 1..Len(REGION_MAP) : REGION_MAP[k][1] = t][2]
    ELSE IF t \in ObjectPrototypeProps
         THEN "Object.prototype." \o t
         ELSE undefined

RECURSIVE spaceRunBefore(_, _)
\* Length of the whitespace run that ends just before index i.
spaceRunBefore(s, i) ==
    IF i > 0 /\ charAt(s, i - 1) \in Whitespace
    THEN 1 + spaceRunBefore(s, i - 1)
    ELSE 0

RECURSIVE stripParens(_)
\* t.replace(/\s*\(.*?\)/g, ''): every "(...)" up to its first ")" goes,
\* with the whitespace before it.
stripParens(t) ==
    LET open == indexOf(t, "(")
    IN  IF open = -1 THEN t
        ELSE LET close == indexOf(substringFrom(t, open + 1), ")")
             IN  IF close = -1 THEN t
                 ELSE substring(t, 0, open - spaceRunBefore(t, open))
                        \o stripParens(substringFrom(t, open + close + 2))

\* The normalisation mapRegion applies to its argument.
normalizeRegionText(text) == trim(stripParens(toLowerCase(text)))

\* The partial-match loop of mapRegion: the code of the first alias, in table
\* order, that occurs in t; null when none does.
firstContainedAlias(t) ==
    LET hits == {k \in 1..Len(REGION_MAP) : includes(t, REGION_MAP[k][1])}
    IN  IF hits = {} THEN null ELSE REGION_MAP[SetMin(hits)][2]

mapRegion(text) ==
    IF text = "" THEN null
    ELSE LET t == normalizeRegionText(text)
         IN  IF regionLookup(t) # undefined
             THEN regionLookup(t)
             ELSE firstContainedAlias(t)

mapVessel(text) ==
    LET t == toLowerCase(text)
    IN  IF includes(t, "capesize") \/ includes(t, "cape") THEN "CAPESIZE"
        ELSE IF includes(t, "panamax") THEN "PANAMAX"
        ELSE IF includes(t, "ultramax") THEN "ULTRAMAX"
        ELSE IF includes(t, "supramax") THEN "SUPRAMAX"
        ELSE IF includes(t, "handy") THEN "HANDY"
        ELSE null

(***************************************************************************)
(* parseLine                                                               *)
(***************************************************************************)
\* The character class [•·\-\*] of the bullet-stripping expression.
BulletClass == {"@", "#", "-", "*"}

\* Mutant of stripBullet: the expression without its ^ anchor, which removes
\* the first bullet character wherever it stands.
stripBulletUnanchored(line) ==
    LET at == {i \in 0..(Len(line) - 1) : charAt(line, i) \in BulletClass}
    IN  IF at = {} THEN line
        ELSE substring(line, 0, SetMin(at))
               \o substringFrom(line, SetMin(at) + 1 + runLength(line, SetMin(at) + 1, Whitespace))

\* line.replace(/^[•·\-\*]\s*/, ''): one leading bullet and the whitespace
\* after it.
stripBullet(line) ==
    IF Len(line) > 0 /\ charAt(line, 0) \in BulletClass
    THEN substringFrom(line, 1 + runLength(line, 1, Whitespace))
    ELSE line

\* The character class [0-9,] of the rate expression.
RateChars == DigitChars \cup {","}

noMatch == [index |-> -1, text |-> "", capture |-> ""]

\* clean.match(/fixed\s+around\s+\$([0-9,]+)/i): the leftmost match, with its
\* index and its capture group; noMatch stands for null.
rateMatch(clean) ==
    LET low == toLowerCase(clean)
        around(i)  == i + 5 + runLength(clean, i + 5, Whitespace)
        dollar(i)  == around(i) + 6 + runLength(clean, around(i) + 6, Whitespace)
        matches(i) == /\ startsWithAt(low, "fixed", i)
                      /\ around(i) > i + 5
                      /\ startsWithAt(low, "around", around(i))
                      /\ dollar(i) > around(i) + 6
                      /\ charAt(clean, dollar(i)) = "$"
                      /\ runLength(clean, dollar(i) + 1, RateChars) >= 1
        hits == {i \in 0..(Len(clean) - 1) : matches(i)}
    IN  IF hits = {} THEN noMatch
        ELSE LET i == SetMin(hits)
             IN  [index   |-> i,
                  text    |-> substring(clean, i,
                                 dollar(i) + 1 + runLength(clean, dollar(i) + 1, RateChars)),
                  capture |-> substring(clean, dollar(i) + 1,
                                 dollar(i) + 1 + runLength(clean, dollar(i) + 1, RateChars))]

\* Mutant of rateAccepted: the check without its floor.
rateAcceptedWithoutFloor(rate) ==
    ~(rate = NaN \/ rate = 0 \/ rate > 200000)

\* The sanity check on the rate: !rate || rate < 1000 || rate > 200000 rejects.
rateAccepted(rate) ==
    ~(rate = NaN \/ rate = 0 \/ rate < 1000 \/ rate > 200000)

\* clean.substring(0, clean.indexOf('fixed around')).trim()
beforeFixedOf(clean) == trim(substring(clean, 0, indexOf(clean, "fixed around")))

RECURSIVE solidRunLength(_, _)
\* Length of the run of non-whitespace characters of s starting at index i (\S*).
solidRunLength(s, i) ==
    IF i < Len(s) /\ charAt(s, i) \notin Whitespace
    THEN 1 + solidRunLength(s, i + 1)
    ELSE 0

\* beforeFixed.replace(/^\S+\s+open\s+/i, '').trim()
afterOpenOf(beforeFixed) ==
    LET word  == solidRunLength(beforeFixed, 0)
        gap1  == runLength(beforeFixed, word, Whitespace)
        open  == word + gap1
        gap2  == runLength(beforeFixed, open + 4, Whitespace)
        found == /\ word >= 1
                 /\ gap1 >= 1
                 /\ startsWithAt(toLowerCase(beforeFixed), "open", open)
                 /\ gap2 >= 1
    IN  trim(IF found THEN substringFrom(beforeFixed, open + 4 + gap2) ELSE beforeFixed)

\* Index of the separator of origin and destination in the route text.
toIndexOf(afterOpen) == lastIndexOf(afterOpen, " to ")

\* Index of the separator of origin and via-clause in the origin segment.
viaIndexOf(originVia) == lastIndexOf(originVia, " via ")

\* s.replace(/\s*$/, '')
stripTrailingSpace(s) ==
    LET solid == {i \in 0..(Len(s) - 1) : charAt(s, i) \notin Whitespace}
    IN  IF solid = {} THEN "" ELSE substring(s, 0, SetMax(solid) + 1)

parseLine(line) ==
    LET clean == trim(stripBullet(line))
        m     == rateMatch(clean)
    IN  IF m = noMatch THEN nullRecord
        ELSE
        LET rate == parseInt(removeCommas(m.capture))
        IN  IF ~rateAccepted(rate) THEN nullRecord
            ELSE
            LET beforeFixed == beforeFixedOf(clean)
                firstWord   == firstToken(beforeFixed)
                vesselType  == mapVessel(firstWord)
            IN  IF vesselType = null THEN nullRecord
                ELSE
                LET afterOpen == afterOpenOf(beforeFixed)
                    toIdx     == toIndexOf(afterOpen)
                IN  IF toIdx = -1 THEN nullRecord
                    ELSE
                    LET originVia       == trim(substring(afterOpen, 0, toIdx))
                        destinationText == stripTrailingSpace(
                                               trim(substringFrom(afterOpen, toIdx + 4)))
                        viaIdx          == viaIndexOf(originVia)
                        originText      == IF viaIdx # -1
                                           THEN trim(substring(originVia, 0, viaIdx))
                                           ELSE originVia
                        originRegion      == mapRegion(originText)
                        destinationRegion == mapRegion(destinationText)
                    IN  IF originRegion = null \/ destinationRegion = null
                        THEN nullRecord
                        ELSE [vesselType        |-> vesselType,
                              originText        |-> originText,
                              destinationText   |-> destinationText,
                              originRegion      |-> originRegion,
                              destinationRegion |-> destinationRegion,
                              rate              |-> rate,
                              rawLine           |-> clean]

(***************************************************************************)
(* State.                                                                  *)
(***************************************************************************)
VARIABLES
    clock,        \* the current UTC calendar day, as a day number
    store,        \* the rows of table scraped_rates, in insertion order
    scrapePc,     \* position of the scrape handler
    html,         \* scrape: the page body it fetched
    pendingRows,  \* scrape: the rows it sent to the store
    scrapeOut,    \* scrape: the response of the trigger endpoint
    ratesPc,      \* position of the read handler
    cutoffDay,    \* rates: cutoffStr
    today,        \* rates: today
    tcRes,        \* rates: the rate-history fetch
    bunkerRes,    \* rates: the bunker-price fetch
    response,     \* rates: the response of the read endpoint
    lineIn,       \* a call parseLine(lineIn) ...
    lineOut,      \* ... its result ...
    lineAgain,    \* ... and the result of parseLine(lineOut.rawLine)
    lineAlt,      \* lineIn with the rate phrase in another letter case ...
    altOut,       \* ... and the result of parseLine(lineAlt)
    regionIn,     \* a call mapRegion(regionIn) ...
    regionOut     \* ... and its result

scrapeVars == <<scrapePc, html, pendingRows, scrapeOut>>

ratesVars == <<ratesPc, cutoffDay, today, tcRes, bunkerRes, response>>

lineVars == <<lineIn, lineOut, lineAgain, lineAlt, altOut>>

regionVars == <<regionIn, regionOut>>

vars == <<clock, store, scrapeVars, ratesVars, lineVars, regionVars>>

\* A result that has not been computed yet.
notRun == [pending |-> TRUE]

(***************************************************************************)
(* parseRates and the scrape handler.                                      *)
(***************************************************************************)
RECURSIVE splitLines(_)
\* html.split('\n')
splitLines(body) ==
    LET nl == indexOf(body, "\n")
    IN  IF nl = -1 THEN <<body>>
        ELSE <<substring(body, 0, nl)>> \o splitLines(substringFrom(body, nl + 1))

\* The dedup key of a parsed record.
recordKey(r) == r.vesselType \o "|" \o r.originRegion \o "|" \o r.destinationRegion

\* The two filters of the loop of parseRates on a trimmed line.
isCandidateLine(trimmed) ==
    /\ startsWithAt(trimmed, "@", 0) \/ startsWithAt(trimmed, "#", 0)
    /\ includes(toLowerCase(trimmed), "fixed around")

\* Mutant of parseRatesLine: the loop without the `seen` test.
parseRatesLineUndeduplicated(acc, trimmed) ==
    IF ~isCandidateLine(trimmed) THEN acc
    ELSE WithValue(parseLine(trimmed), LAMBDA parsed :
            IF parsed = nullRecord THEN acc
            ELSE [rates |-> Append(acc.rates, parsed),
                  seen  |-> acc.seen \cup {recordKey(parsed)}])

\* The body of the loop of parseRates for one trimmed line: `acc` holds the
\* records pushed so far and the set of their keys.
parseRatesLine(acc, trimmed) ==
    IF ~isCandidateLine(trimmed) THEN acc
    ELSE WithValue(parseLine(trimmed), LAMBDA parsed :
            IF parsed = nullRecord THEN acc
            ELSE IF recordKey(parsed) \in acc.seen THEN acc
            ELSE [rates |-> Append(acc.rates, parsed),
                  seen  |-> acc.seen \cup {recordKey(parsed)}])

RECURSIVE parseRatesFrom(_, _, _)
\* The loop of parseRates from line i on.
parseRatesFrom(lines, i, acc) ==
    IF i > Len(lines) THEN acc.rates
    ELSE WithValue(trim(lines[i]), LAMBDA trimmed :
            WithValue(parseRatesLine(acc, trimmed), LAMBDA next :
                parseRatesFrom(lines, i + 1, next)))

parseRates(body) ==
    WithValue(splitLines(body), LAMBDA lines :
        parseRatesFrom(lines, 1, [rates |-> <<>>, seen |-> {}]))

\* Mutant of noRatesFound: scrape without the test for an empty result.
noRatesFoundUnchecked(parsed) == FALSE

\* parsed.length === 0, the test on which scrape throws.
noRatesFound(parsed) == Len(parsed) = 0

\* The row scrape builds from a parsed record.
toRow(r, date) ==
    [scraped_date       |-> date,
     vessel_type        |-> r.vesselType,
     origin_text        |-> r.originText,
     destination_text   |-> r.destinationText,
     origin_region      |-> r.originRegion,
     destination_region |-> r.destinationRegion,
     rate               |-> r.rate,
     raw_line           |-> r.rawLine]

toRows(parsed, date) == [i \in 1..Len(parsed) |-> toRow(parsed[i], date)]

\* The error payload of the trigger endpoint.
scrapeError(message) == [status |-> 500, success |-> FALSE, error |-> message]

\* The trigger endpoint is called: without a credential it answers 401, with
\* one scrape() starts and requests the bulletin page.
ScrapeRequest ==
    /\ scrapePc \in {"idle", "done"}
    /\ Len(store) < MaxStoreRows
    /\ \E authorized \in BOOLEAN :
          IF authorized
          THEN /\ scrapePc' = "fetching"
               /\ scrapeOut' = notRun
          ELSE /\ scrapePc' = "done"
               /\ scrapeOut' = [status |-> 401, success |-> FALSE, error |-> "Unauthorized"]
    /\ html' = ""
    /\ pendingRows' = <<>>
    /\ UNCHANGED <<clock, store, ratesVars, lineVars, regionVars>>

\* The page request is answered with a non-success status (a rejected request
\* ends the run the same way, with another message).
ScrapePageFails ==
    /\ scrapePc = "fetching"
    /\ scrapeOut' = scrapeError("Failed to fetch HandyBulk: 503")
    /\ scrapePc' = "done"
    /\ UNCHANGED <<clock, store, html, pendingRows, ratesVars, lineVars, regionVars>>

\* The page arrives: scrape parses it, throws when nothing was parsed, and
\* otherwise stamps the records with today's date and sends them to the store.
ScrapePageArrives(pages) ==
    /\ scrapePc = "fetching"
    /\ \E body \in pages :
          \E parsed \in {parseRates(body)} :
              /\ html' = body
              /\ IF noRatesFound(parsed)
                 THEN /\ scrapePc' = "done"
                      /\ scrapeOut' = scrapeError("No rates found - page structure may have changed")
                      /\ pendingRows' = <<>>
                 ELSE /\ scrapePc' = "inserting"
                      /\ scrapeOut' = notRun
                      /\ pendingRows' = toRows(parsed, clock)
    /\ UNCHANGED <<clock, store, ratesVars, lineVars, regionVars>>

\* The insert is answered: on success the batch is in the table, on a
\* non-success status nothing is and insertToSupabase throws.
ScrapeInsertSettles ==
    /\ scrapePc = "inserting"
    /\ \E ok \in BOOLEAN :
          IF ok
          THEN /\ store' = store \o pendingRows
               /\ scrapeOut' = [status |-> 200, success |-> TRUE,
                                date |-> pendingRows[1].scraped_date,
                                inserted |-> Len(pendingRows), rates |-> pendingRows]
          ELSE /\ store' = store
               /\ scrapeOut' = scrapeError("Supabase insert failed: 500")
    /\ scrapePc' = "done"
    /\ UNCHANGED <<clock, html, pendingRows, ratesVars, lineVars, regionVars>>

(***************************************************************************)
(* The read handler: freshness tiers, aggregation, the two fetches.        *)
(***************************************************************************)
getTierAndConfidence(daysOld) ==
    IF daysOld <= TIER1_DAYS THEN [tier |-> 1, confidence |-> 95]
    ELSE IF daysOld <= TIER2_DAYS THEN [tier |-> 2, confidence |-> 75]
    ELSE IF daysOld <= TIER3_DAYS THEN [tier |-> 3, confidence |-> 50]
    ELSE [tier |-> 4, confidence |-> 30]

\* Length of a day in the unit of getTime. The source counts milliseconds
\* (86400000); the model counts seconds, which keeps every instant within
\* TLC's integers and changes no quotient: a date has no part below a second.
TicksPerDay == 86400

\* new Date(dateString).getTime() for a date-only string: midnight UTC.
getTime(date) == date * TicksPerDay

\* Math.round(num / den) for den > 0: halves round towards +infinity.
mathRound(num, den) == (2 * num + den) \div (2 * den)

\* Math.round((todayMs - rowMs) / 86400000)
daysOldOf(todayDate, rowDate) ==
    mathRound(getTime(todayDate) - getTime(rowDate), TicksPerDay)

\* The dedup key of a stored row.
rowKey(row) == row.vessel_type \o "|" \o row.origin_region \o "|" \o row.destination_region

RECURSIVE bestFrom(_, _, _, _)
\* The dedup loop from row i on: `best` holds the kept rows in insertion
\* order, `keys` their keys.
bestFrom(rows, i, best, keys) ==
    IF i > Len(rows) THEN best
    ELSE IF rowKey(rows[i]) \in keys
         THEN bestFrom(rows, i + 1, best, keys)
         ELSE bestFrom(rows, i + 1, Append(best, rows[i]), keys \cup {rowKey(rows[i])})

\* Mutant of bestPerKey: the Map entry is overwritten by every later row of
\* its key (best.set without the best.has test).
bestPerKeyOverwritten(rows) ==
    LET first == bestFrom(rows, 1, <<>>, {})
        lastOf(key) == rows[SetMax({i \in 1..Len(rows) : rowKey(rows[i]) = key})]
    IN  [k \in 1..Len(first) |-> lastOf(rowKey(first[k]))]

\* best.values() after the dedup loop.
bestPerKey(rows) == bestFrom(rows, 1, <<>>, {})

\* The record pushed to `result` for a kept row.
toAggregated(row, todayDate) ==
    LET daysOld == daysOldOf(todayDate, row.scraped_date)
        tc      == getTierAndConfidence(daysOld)
    IN  [vesselType        |-> row.vessel_type,
         originRegion      |-> row.origin_region,
         destinationRegion |-> row.destination_region,
         originText        |-> row.origin_text,
         destinationText   |-> row.destination_text,
         rate              |-> row.rate,
         scrapedDate       |-> row.scraped_date,
         daysOld           |-> daysOld,
         tier              |-> tc.tier,
         confidence        |-> tc.confidence,
         rawLine           |-> row.raw_line]

\* The characters of vessel and region codes in collation order.
CollationAlphabet == " .ABCDEFGHIJKLMNOPQRSTUVWXYZ"

RECURSIVE localeCompare(_, _)
\* a.localeCompare(b) on codes: negative, zero or positive.
localeCompare(a, b) ==
    IF a = "" /\ b = "" THEN 0
    ELSE IF a = "" THEN -1
    ELSE IF b = "" THEN 1
    ELSE LET ra == indexOf(CollationAlphabet, SubSeq(a, 1, 1))
             rb == indexOf(CollationAlphabet, SubSeq(b, 1, 1))
         IN  IF ra < rb THEN -1
             ELSE IF ra > rb THEN 1
             ELSE localeCompare(Tail(a), Tail(b))

\* The comparator of result.sort.
compareRates(a, b) ==
    IF localeCompare(a.vesselType, b.vesselType) # 0
    THEN localeCompare(a.vesselType, b.vesselType)
    ELSE localeCompare(a.originRegion, b.originRegion)

RECURSIVE insertSorted(_, _)
\* r placed after every element of the sorted `sorted` that is not greater.
insertSorted(sorted, r) ==
    IF sorted = <<>> THEN <<r>>
    ELSE IF compareRates(r, Head(sorted)) < 0
         THEN <<r>> \o sorted
         ELSE <<Head(sorted)>> \o insertSorted(Tail(sorted), r)

RECURSIVE sortRates(_)
\* result.sort(...): Array.prototype.sort is stable.
sortRates(result) ==
    IF result = <<>> THEN <<>>
    ELSE insertSorted(sortRates(SubSeq(result, 1, Len(result) - 1)), result[Len(result)])

\* The `rates` of a successful response for the rows the query returned.
aggregate(rows, todayDate) ==
    LET best == bestPerKey(rows)
    IN  sortRates([i \in 1..Len(best) |-> toAggregated(best[i], todayDate)])

\* bunkerByHub: the first row of each hub, with its age.
bunkerByHubOf(bunkerRows, todayDate) ==
    LET hubs == {bunkerRows[i].hub : i \in 1..Len(bunkerRows)}
        first(h) == bunkerRows[SetMin({i \in 1..Len(bunkerRows) : bunkerRows[i].hub = h})]
    IN  [h \in hubs |->
            [hub         |-> h,
             vlsfo       |-> first(h).vlsfo,
             mgo         |-> first(h).mgo,
             scrapedDate |-> first(h).scraped_date,
             daysOld     |-> daysOldOf(todayDate, first(h).scraped_date)]]

\* limit=5000 of the rate query.
QueryLimit == 5000

RECURSIVE descOrders(_, _)
\* The orders in which the rows of `table` at the indexes `idx` can come back
\* under order=scraped_date.desc: rows of one date come in any order.
descOrders(table, idx) ==
    IF idx = {} THEN {<<>>}
    ELSE UNION {
           {<<table[i]>> \o rest : rest \in descOrders(table, idx \ {i})} :
             i \in {j \in idx : \A k \in idx : table[j].scraped_date >= table[k].scraped_date}}

\* The bodies the rate query can answer with on the table as it is now.
queryRates(table, cutoff) ==
    LET idx == {i \in 1..Len(table) : table[i].scraped_date >= cutoff}
    IN  {SubSeq(rows, 1, IF Len(rows) < QueryLimit THEN Len(rows) ELSE QueryLimit) :
            rows \in descOrders(table, idx)}

\* States of a fetch.
fetchNone == [state |-> "none"]

fetchPending == [state |-> "pending"]

fetchRejected == [state |-> "rejected"]

\* A fetch answered with a status; `readable` says whether .json() will parse
\* the body.
fetchAnswered(ok, status, readable, body) ==
    [state |-> "fulfilled", ok |-> ok, status |-> status, readable |-> readable, body |-> body]

\* The payload of the catch block.
ratesError(message) ==
    [status |-> 500, success |-> FALSE, error |-> message, rates |-> <<>>, bunker |-> <<>>]

\* A request arrives. OPTIONS and methods other than GET are answered at
\* once; GET computes cutoffStr from the clock.
RatesRequest ==
    /\ ratesPc \in {"idle", "done"}
    /\ \E method \in {"GET", "OPTIONS", "POST"} :
          IF method = "GET"
          THEN /\ ratesPc' = "cutoff"
               /\ cutoffDay' = clock - TIER3_DAYS
               /\ response' = notRun
          ELSE /\ ratesPc' = "done"
               /\ cutoffDay' = cutoffDay
               /\ response' = IF method = "OPTIONS"
                              THEN [status |-> 200, success |-> FALSE]
                              ELSE [status |-> 405, success |-> FALSE,
                                    error |-> "Method not allowed"]
    /\ today' = today
    /\ tcRes' = fetchNone
    /\ bunkerRes' = fetchNone
    /\ UNCHANGED <<clock, store, scrapeVars, lineVars, regionVars>>

\* `today` is read from the clock and both fetches are issued.
RatesIssueFetches ==
    /\ ratesPc = "cutoff"
    /\ ratesPc' = "fetching"
    /\ today' = clock
    /\ tcRes' = fetchPending
    /\ bunkerRes' = fetchPending
    /\ UNCHANGED <<clock, store, scrapeVars, cutoffDay, response, lineVars, regionVars>>

\* The rate-history fetch settles: rejected, answered with a non-success
\* status, or answered with the rows the query finds (or a body .json()
\* cannot parse).
TcFetchSettles ==
    /\ ratesPc = "fetching"
    /\ tcRes = fetchPending
    /\ \/ tcRes' = fetchRejected
       \/ tcRes' = fetchAnswered(FALSE, 503, TRUE, <<>>)
       \/ tcRes' = fetchAnswered(TRUE, 200, FALSE, <<>>)
       \/ \E rows \in queryRates(store, cutoffDay) :
             tcRes' = fetchAnswered(TRUE, 200, TRUE, rows)
    /\ UNCHANGED <<clock, store, scrapeVars, ratesPc, cutoffDay, today, bunkerRes,
                   response, lineVars, regionVars>>

\* The bunker-price fetch settles, in the same ways.
BunkerFetchSettles ==
    /\ ratesPc = "fetching"
    /\ bunkerRes = fetchPending
    /\ \/ bunkerRes' = fetchRejected
       \/ bunkerRes' = fetchAnswered(FALSE, 503, TRUE, <<>>)
       \/ bunkerRes' = fetchAnswered(TRUE, 200, FALSE, <<>>)
       \/ \E rows \in BunkerBodies :
             bunkerRes' = fetchAnswered(TRUE, 200, TRUE, rows)
    /\ UNCHANGED <<clock, store, scrapeVars, ratesPc, cutoffDay, today, tcRes,
                   response, lineVars, regionVars>>

\* Promise.all rejects as soon as one of the fetches is rejected: the catch
\* block answers 500.
RatesFetchRejected ==
    /\ ratesPc = "fetching"
    /\ tcRes = fetchRejected \/ bunkerRes = fetchRejected
    /\ ratesPc' = "done"
    /\ response' = ratesError("fetch failed")
    /\ UNCHANGED <<clock, store, scrapeVars, cutoffDay, today, tcRes, bunkerRes,
                   lineVars, regionVars>>

\* Promise.all resolves when both fetches are answered; the handler runs to
\* its response.
RatesRespond ==
    /\ ratesPc = "fetching"
    /\ tcRes.state = "fulfilled"
    /\ bunkerRes.state = "fulfilled"
    /\ ratesPc' = "done"
    /\ response' =
          IF ~tcRes.ok
          THEN ratesError("Supabase TC query failed: 503")
          ELSE IF ~tcRes.readable
          THEN ratesError("Unexpected token in JSON")
          ELSE IF bunkerRes.ok /\ ~bunkerRes.readable
          THEN ratesError("Unexpected token in JSON")
          ELSE LET result == aggregate(tcRes.body, today)
               IN  [status    |-> 200,
                    success   |-> TRUE,
                    count     |-> Len(result),
                    fetchedAt |-> clock,
                    rates     |-> result,
                    bunker    |-> IF bunkerRes.ok
                                  THEN bunkerByHubOf(bunkerRes.body, today)
                                  ELSE <<>>]
    /\ UNCHANGED <<clock, store, scrapeVars, cutoffDay, today, tcRes, bunkerRes,
                   lineVars, regionVars>>

\* Days pass between requests (the model lets them pass before the first read
\* request only: later requests see nothing an earlier one could not).
Tick ==
    /\ ratesPc = "idle"
    /\ scrapePc \in {"idle", "done"}
    /\ \E d \in Days : d > clock /\ clock' = d
    /\ UNCHANGED <<store, scrapeVars, ratesVars, lineVars, regionVars>>

\* Midnight UTC passes while a read request is being served (at most once:
\* a request lasts seconds).
Midnight ==
    /\ ratesPc \in {"cutoff", "fetching"}
    /\ clock = cutoffDay + TIER3_DAYS
    /\ clock + 1 \in Days
    /\ clock' = clock + 1
    /\ UNCHANGED <<store, scrapeVars, ratesVars, lineVars, regionVars>>

(***************************************************************************)
(* Calls of the pure functions.                                            *)
(***************************************************************************)
upperChar(c) ==
    IF \E k \in 1..26 : LowerLetters[k] = c
    THEN UpperLetters[CHOOSE k \in 1..26 : LowerLetters[k] = c]
    ELSE c

RECURSIVE toUpperCase(_)
\* s.toUpperCase()
toUpperCase(s) ==
    IF s = "" THEN "" ELSE upperChar(SubSeq(s, 1, 1)) \o toUpperCase(Tail(s))

\* The lines that differ from `line` only in the letter case of the words
\* "fixed around" of its rate phrase.
phraseCaseVariants(line) ==
    LET m == rateMatch(line)
        from  == m.index
        until == m.index + Len(m.text) - Len(m.capture) - 1
        recased(words) == substring(line, 0, from) \o words \o substringFrom(line, until)
    IN  IF m = noMatch THEN {}
        ELSE {recased(toUpperCase(substring(line, from, until))),
              recased(toLowerCase(substring(line, from, until)))} \ {line}

\* The value of regionOut before the call.
notCalled == "(not called)"

ParseLineCall ==
    /\ lineOut = notRun
    /\ lineOut' = parseLine(lineIn)
    /\ UNCHANGED <<clock, store, scrapeVars, ratesVars, lineIn, lineAgain, lineAlt, altOut,
                   regionVars>>

\* parseLine on the rawLine of its own result.
ReparseCall ==
    /\ lineOut \notin {notRun, nullRecord}
    /\ lineAgain = notRun
    /\ lineAgain' = parseLine(lineOut.rawLine)
    /\ UNCHANGED <<clock, store, scrapeVars, ratesVars, lineIn, lineOut, lineAlt, altOut,
                   regionVars>>

\* parseLine on a line that differs only in the letter case of the rate phrase.
ParseVariantCall ==
    /\ lineOut # notRun
    /\ altOut = notRun
    /\ \E v \in phraseCaseVariants(lineIn) :
          /\ lineAlt' = v
          /\ altOut' = parseLine(v)
    /\ UNCHANGED <<clock, store, scrapeVars, ratesVars, lineIn, lineOut, lineAgain,
                   regionVars>>

MapRegionCall ==
    /\ regionOut = notCalled
    /\ regionOut' = mapRegion(regionIn)
    /\ UNCHANGED <<clock, store, scrapeVars, ratesVars, lineVars, regionIn>>

(***************************************************************************)
(* Specifications.                                                         *)
(***************************************************************************)
\* Both handlers idle on day 0 with an empty table.
InitSystem ==
    /\ clock = 0
    /\ store = <<>>
    /\ scrapePc = "idle"
    /\ html = ""
    /\ pendingRows = <<>>
    /\ scrapeOut = notRun
    /\ ratesPc = "idle"
    /\ cutoffDay = 0
    /\ today = 0
    /\ tcRes = fetchNone
    /\ bunkerRes = fetchNone
    /\ response = notRun

NoLineCall ==
    /\ lineIn = ""
    /\ lineOut = notRun
    /\ lineAgain = notRun
    /\ lineAlt = ""
    /\ altOut = notRun

NoRegionCall ==
    /\ regionIn = ""
    /\ regionOut = notCalled

Init == InitSystem /\ NoLineCall /\ NoRegionCall

\* The whole system: scrape runs over the sample pages, read requests, time.
Next ==
    \/ ScrapeRequest
    \/ ScrapePageFails
    \/ ScrapePageArrives(SamplePages)
    \/ ScrapeInsertSettles
    \/ RatesRequest
    \/ RatesIssueFetches
    \/ TcFetchSettles
    \/ BunkerFetchSettles
    \/ RatesFetchRejected
    \/ RatesRespond
    \/ Tick
    \/ Midnight

Spec == Init /\ [][Next]_vars

\* The scrape handler alone, over every page.
ScrapeNext ==
    \/ ScrapeRequest
    \/ ScrapePageFails
    \/ ScrapePageArrives(Pages)
    \/ ScrapeInsertSettles

ScrapeSpec == Init /\ [][ScrapeNext]_vars

\* parseLine on every bulletin line.
LineInit ==
    /\ InitSystem
    /\ NoRegionCall
    /\ lineIn \in BulletinLines
    /\ lineOut = notRun
    /\ lineAgain = notRun
    /\ lineAlt = ""
    /\ altOut = notRun

LineNext == ParseLineCall \/ ReparseCall \/ ParseVariantCall

LineSpec == LineInit /\ [][LineNext]_vars

\* mapRegion on every location text.
RegionInit ==
    /\ InitSystem
    /\ NoLineCall
    /\ regionIn \in RegionTexts
    /\ regionOut = notCalled

RegionNext == MapRegionCall

RegionSpec == RegionInit /\ [][RegionNext]_vars

(***************************************************************************)
(* Properties of the read endpoint (specification Spec).                   *)
(***************************************************************************)
\* The rate-history fetch was answered with rows the handler can read.
tcSucceeded == tcRes.state = "fulfilled" /\ tcRes.ok /\ tcRes.readable

\* The bunker-price fetch failed: rejected, a non-success status, or a body
\* that cannot be read.
bunkerFailed ==
    \/ bunkerRes.state = "rejected"
    \/ bunkerRes.state = "fulfilled" /\ (~bunkerRes.ok \/ ~bunkerRes.readable)

\* C1: when the rate-history fetch succeeds and the bunker-price fetch fails,
\* the response is a success that carries the aggregated rates and an empty
\* bunker collection.
C1_BunkerFailureIsNotFatal ==
    (ratesPc = "done" /\ tcSucceeded /\ bunkerFailed)
        => /\ response.status = 200
           /\ response.success
           /\ response.rates = aggregate(tcRes.body, today)
           /\ response.bunker = <<>>

\* The part of C1 the handler does implement: a bunker fetch answered with a
\* non-success status leaves the response a success with no bunker prices.
C1_BunkerStatusIsNotFatal ==
    (ratesPc = "done" /\ tcSucceeded /\ bunkerRes.state = "fulfilled" /\ ~bunkerRes.ok)
        => /\ response.status = 200
           /\ response.success
           /\ response.rates = aggregate(tcRes.body, today)
           /\ response.bunker = <<>>

\* The grouping key of a returned record and of a stored row.
rateKeyOf(r) == <<r.vesselType, r.originRegion, r.destinationRegion>>

storedKeyOf(row) == <<row.vessel_type, row.origin_region, row.destination_region>>

\* A successful response to a GET.
succeeded == ratesPc = "done" /\ response.success

\* C2: a successful response holds exactly one record per (vessel type,
\* origin region, destination region) key of the rows the query returned, and
\* that record is taken from a row of the key with the latest scrape date.
C2_MostRecentWins ==
    succeeded =>
        LET rows  == tcRes.body
            rates == response.rates
        IN  /\ {rateKeyOf(rates[i]) : i \in 1..Len(rates)}
                 = {storedKeyOf(rows[j]) : j \in 1..Len(rows)}
            /\ \A i, k \in 1..Len(rates) :
                  rateKeyOf(rates[i]) = rateKeyOf(rates[k]) => i = k
            /\ \A i \in 1..Len(rates) :
                  /\ \A j \in 1..Len(rows) :
                        storedKeyOf(rows[j]) = rateKeyOf(rates[i])
                            => rows[j].scraped_date <= rates[i].scrapedDate
                  /\ \E j \in 1..Len(rows) :
                        /\ storedKeyOf(rows[j]) = rateKeyOf(rates[i])
                        /\ rows[j].scraped_date = rates[i].scrapedDate
                        /\ rows[j].rate = rates[i].rate
                        /\ rows[j].origin_text = rates[i].originText
                        /\ rows[j].destination_text = rates[i].destinationText
                        /\ rows[j].raw_line = rates[i].rawLine

\* C2 happens: the query returned two rows of one key scraped on different
\* days, and the response holds the later one.
C2_Witness ==
    /\ succeeded
    /\ \E j, k \in 1..Len(tcRes.body) :
          /\ storedKeyOf(tcRes.body[j]) = storedKeyOf(tcRes.body[k])
          /\ tcRes.body[j].scraped_date < tcRes.body[k].scraped_date
          /\ \E i \in 1..Len(response.rates) :
                /\ rateKeyOf(response.rates[i]) = storedKeyOf(tcRes.body[k])
                /\ response.rates[i].scrapedDate = tcRes.body[k].scraped_date

\* The tier and confidence the specification's table gives an age.
tierOfAge(age) ==
    IF age <= 3 THEN [tier |-> 1, confidence |-> 95]
    ELSE IF age <= 14 THEN [tier |-> 2, confidence |-> 75]
    ELSE IF age <= 45 THEN [tier |-> 3, confidence |-> 50]
    ELSE [tier |-> 4, confidence |-> 30]

\* C3: every returned record carries daysOld, the whole number of days
\* between its scrape date and today, which is never negative, and the tier
\* and confidence that the table gives that number.
C3_TierIsStepFunctionOfAge ==
    succeeded =>
        \A i \in 1..Len(response.rates) :
            LET r == response.rates[i]
            IN  /\ r.daysOld = today - r.scrapedDate
                /\ r.daysOld >= 0
                /\ [tier |-> r.tier, confidence |-> r.confidence] = tierOfAge(r.daysOld)

\* The part of C3 the handler does implement: daysOld is the day difference
\* and tier and confidence follow the table.
C3_TierFollowsTable ==
    succeeded =>
        \A i \in 1..Len(response.rates) :
            LET r == response.rates[i]
            IN  /\ r.daysOld = today - r.scrapedDate
                /\ [tier |-> r.tier, confidence |-> r.confidence] = tierOfAge(r.daysOld)

(***************************************************************************)
(* Properties of the scrape run (specification ScrapeSpec).                *)
(***************************************************************************)
\* The lines of the fetched page, trimmed.
pageLines(body) ==
    LET lines == splitLines(body)
    IN  [i \in 1..Len(lines) |-> trim(lines[i])]

\* Line t of a page yields a record.
yieldsRecord(t) == isCandidateLine(t) /\ parseLine(t) # nullRecord

\* A step in which the page arrives.
pageArrives ==
    /\ scrapePc = "fetching"
    /\ scrapePc' # "fetching"
    /\ scrapeOut' # scrapeError("Failed to fetch HandyBulk: 503")

parsedKeyOf(r) == <<r.vesselType, r.originRegion, r.destinationRegion>>

\* The lines of a page that yield a record whose key no earlier line yields.
firstOfKey(lines) ==
    {i \in 1..Len(lines) :
        /\ yieldsRecord(lines[i])
        /\ \A j \in 1..(i - 1) :
              yieldsRecord(lines[j])
                  => parsedKeyOf(parseLine(lines[j])) # parsedKeyOf(parseLine(lines[i]))}

\* C5: the rows a run sends to the store are, in page order, the records of
\* the first line of each key; later lines of a key are dropped.
C5_FirstOccurrenceWins ==
    scrapePc = "inserting" =>
        LET lines  == pageLines(html)
            firsts == firstOfKey(lines)
            nth(k) == CHOOSE i \in firsts : Cardinality({j \in firsts : j <= i}) = k
        IN  /\ Len(pendingRows) = Cardinality(firsts)
            /\ \A k \in 1..Len(pendingRows) :
                  pendingRows[k] = toRow(parseLine(lines[nth(k)]), pendingRows[k].scraped_date)

\* C5 happens: two lines of the page yield records of one key with different
\* rates, and the batch holds the rate of the first.
C5_Witness ==
    /\ scrapePc = "inserting"
    /\ \E i, j \in 1..Len(pageLines(html)) :
          LET a == parseLine(pageLines(html)[i])
              b == parseLine(pageLines(html)[j])
          IN  /\ i < j
              /\ yieldsRecord(pageLines(html)[i])
              /\ yieldsRecord(pageLines(html)[j])
              /\ parsedKeyOf(a) = parsedKeyOf(b)
              /\ a.rate # b.rate
              /\ \E k \in 1..Len(pendingRows) : pendingRows[k].rate = a.rate
              /\ \A k \in 1..Len(pendingRows) : pendingRows[k].rate # b.rate

\* The number a line states after its dollar sign, commas removed.
statedRate(t) ==
    LET d == indexOf(t, "$")
    IN  IF d = -1 THEN NaN
        ELSE parseInt(removeCommas(
                 substring(t, d + 1, d + 1 + runLength(t, d + 1, DigitChars \cup {","}))))

\* C8: the rate of every record and of every stored row is the integer the
\* line states, within 1000..200000; a line that states a number outside
\* that range yields nothing.
C8_RateWithinSanityRange ==
    /\ \A i \in 1..Len(store) : store[i].rate \in 1000..200000
    /\ \A i \in 1..Len(pendingRows) : pendingRows[i].rate \in 1000..200000
    /\ \A i \in 1..Len(pageLines(html)) :
          LET t == pageLines(html)[i]
              r == parseLine(t)
          IN  /\ r # nullRecord => r.rate \in 1000..200000 /\ r.rate = statedRate(t)
              /\ statedRate(t) \notin 1000..200000 => r = nullRecord

\* C8 happens: of a page with a line at the edge of the range and a line
\* below it, the first is stored and the second is not.
C8_Witness ==
    /\ scrapePc = "done"
    /\ scrapeOut.success
    /\ \E i \in 1..Len(store) : store[i].rate \in {1000, 200000}
    /\ \E i \in 1..Len(pageLines(html)) : statedRate(pageLines(html)[i]) = 500
    /\ \A i \in 1..Len(store) : store[i].rate # 500

(***************************************************************************)
(* Properties of parseLine (specification LineSpec).                       *)
(***************************************************************************)
\* C6: parsing the rawLine of an accepted line gives the same record again.
C6_ParseLineIdempotent ==
    lineAgain # notRun => lineAgain = lineOut

\* C6, amended: parsing the rawLine of an accepted line gives the same record
\* again when the rawLine does not begin with a bullet character.
C6_IdempotentWithoutBullet ==
    (lineAgain # notRun /\ charAt(lineOut.rawLine, 0) \notin BulletClass)
        => lineAgain = lineOut

\* C6 happens: a line with a bullet and trailing space was accepted, its
\* rawLine differs from it, and the second parse gave the same record.
C6_Witness ==
    /\ lineAgain # notRun
    /\ charAt(lineIn, 0) \in BulletClass
    /\ lineOut.rawLine # lineIn
    /\ charAt(lineOut.rawLine, 0) \notin BulletClass
    /\ lineAgain = lineOut

\* C7: two lines that differ only in the letter case of the rate phrase are
\* both rejected or both accepted with the same vessel, regions and rate.
C7_PhraseCaseInsensitive ==
    (lineOut # notRun /\ altOut # notRun) =>
        \/ lineOut = nullRecord /\ altOut = nullRecord
        \/ /\ lineOut # nullRecord
           /\ altOut # nullRecord
           /\ lineOut.vesselType = altOut.vesselType
           /\ lineOut.originRegion = altOut.originRegion
           /\ lineOut.destinationRegion = altOut.destinationRegion
           /\ lineOut.rate = altOut.rate

\* The region codes of the table.
RegionCodes == {REGION_MAP[k][2] : k \in 1..Len(REGION_MAP)}

\* The code the table gives a text: that of the alias equal to the normalized
\* text, else that of the first alias, in table order, the text contains,
\* else null.
resolveByTable(text) ==
    LET t         == normalizeRegionText(text)
        exact     == {k \in 1..Len(REGION_MAP) : REGION_MAP[k][1] = t}
        contained == {k \in 1..Len(REGION_MAP) : includes(t, REGION_MAP[k][1])}
    IN  IF exact # {} THEN REGION_MAP[SetMin(exact)][2]
        ELSE IF contained # {} THEN REGION_MAP[SetMin(contained)][2]
        ELSE null

\* C10: an accepted line has as destination the text after the last " to "
\* of the route and as origin the text before it, cut at its last " via ";
\* a route without " to ", or with an origin or a destination that the table
\* does not resolve, rejects the line.
C10_RouteSplitOnLastSeparator ==
    lineOut # notRun =>
        LET clean       == trim(stripBullet(lineIn))
            m           == rateMatch(clean)
            route       == afterOpenOf(beforeFixedOf(clean))
            toAt        == lastIndexOf(route, " to ")
            segment     == trim(substring(route, 0, toAt))
            viaAt       == lastIndexOf(segment, " via ")
            origin      == IF viaAt = -1 THEN segment ELSE trim(substring(segment, 0, viaAt))
            destination == trim(substringFrom(route, toAt + 4))
            routeIsRead == /\ m # noMatch
                           /\ rateAccepted(parseInt(removeCommas(m.capture)))
                           /\ mapVessel(firstToken(beforeFixedOf(clean))) # null
        IN  routeIsRead =>
                IF \/ toAt = -1
                   \/ resolveByTable(origin) = null
                   \/ resolveByTable(destination) = null
                THEN lineOut = nullRecord
                ELSE /\ lineOut # nullRecord
                     /\ lineOut.originText = origin
                     /\ lineOut.destinationText = destination
                     /\ lineOut.originRegion = resolveByTable(origin)
                     /\ lineOut.destinationRegion = resolveByTable(destination)

(***************************************************************************)
(* Properties of mapRegion (specification RegionSpec).                     *)
(***************************************************************************)
\* C9: mapRegion returns the code of the alias equal to the normalized text,
\* else the code of the first alias in table order that the text contains,
\* else null; the result is always null or a code of the table.
C9_ExactThenFirstContainment ==
    regionOut # notCalled =>
        /\ regionOut = resolveByTable(regionIn)
        /\ regionOut \in RegionCodes \cup {null}

====
